---- MODULE Spec2Model ----
(***************************************************************************)
(* Inventory-booking consistency engine of the marketplace backend:       *)
(* adventure bookings against per-date seat buckets, local-market orders  *)
(* against product stock, rental bookings against per-date availability,  *)
(* and the status lifecycle of each.                                      *)
(*                                                                         *)
(* Every HTTP handler is an async function; requests interleave at each   *)
(* `await`.  A request slot (element of Procs) runs one handler at a time *)
(* and each action below is the code between two awaits.  A document      *)
(* loaded with findById is a private copy held by the handler; save()     *)
(* writes the paths the handler assigned back to the store                *)
(* (seatAvailability / availability are single paths of type Object and   *)
(* are written as a whole, a Number path is $set to the copy's value).    *)
(* Any awaited call may reject (persistence error); the handler's catch   *)
(* block then answers 4xx/5xx and nothing is rolled back.                 *)
(***************************************************************************)
EXTENDS Integers, Sequences, FiniteSets, TLC

\* ------------------------------------------------------------------ bounds
MaxAdvBookings == 2      \* adventure bookings ever created
MaxParticipants == 2     \* largest numberOfParticipants a request carries
SeatCap == 3             \* availableSeats values explored (release is uncapped in the code)
MaxRentalBookings == 2   \* rental bookings ever created
MaxOrders == 2           \* orders ever created
MaxQuantity == 2         \* largest quantity of an order line
MinimumHours == 1        \* Rental.pricing.minimumHours of the rental
StockCap == 4            \* stock values explored (restoring is uncapped in the code)
MaxBoughtBy == 4         \* boughtBy values from which a product rating is still explored

\* ------------------------------------------------------- fixed small sets
Procs == {"p1", "p2"}                 \* concurrent request slots
Users == {"u1", "u2"}                 \* ordinary users
Dates == {"d1", "d2"}                 \* dates for which the adventure has a bucket
InitialSeats == 2                     \* totalSeats = availableSeats of each bucket at start

Actors ==
  {[id |-> "u1", role |-> "user"], [id |-> "u2", role |-> "user"],
   [id |-> "owner", role |-> "adventurer"], [id |-> "renter", role |-> "renter"],
   [id |-> "admin", role |-> "admin"]}
AdventureOwner == "owner"             \* Adventure.adventurer
RentalOwner == "renter"               \* Rental.renter

Products == {"pA", "pB"}              \* LocalMarketProduct documents
InitialStock == 3                     \* stock of each product at start

\* Bodies of POST /orders, all sent by user "u1".  One-line orders name
\* product "pA" or "pX" (which does not exist) and a quantity (0 fails the
\* Order schema's min 1); two-line orders start with a line for "pA"; plus an empty item
\* list and a body without address.
OrderLines == [productId : {"pA", "pX"}, quantity : 0..MaxQuantity]
FirstLines == [productId : {"pA"}, quantity : 1..MaxQuantity]
SecondLines == [productId : Products \cup {"pX"}, quantity : 1..MaxQuantity]

OneLineOrders ==
  [user : {"u1"}, items : {<<l>> : l \in OrderLines}, complete : {TRUE}]

OrderCreateInputs ==
  OneLineOrders
  \cup
  [user : {"u1"}, items : {<<l1, l2>> : l1 \in FirstLines, l2 \in SecondLines},
   complete : {TRUE}]
  \cup
  [user : {"u1"}, items : {<< >>, <<[productId |-> "pA", quantity |-> 1]>>},
   complete : BOOLEAN]

RentalDays == {1, 2}                  \* dates for which the rental has a bucket
InitialRentalSeats == 1               \* totalSeats = availableSeats of each rental bucket

\* Bodies of POST /rentals/:id/book, all sent by user "u1": daily bookings
\* over every pair of dates (day 0 lies in the past, day 3 has no bucket),
\* and malformed requests for each early return.
RentalCreateInputs ==
  [rental : {"r1"}, user : {"u1"}, bookingType : {"daily"}, startDate : 0..3,
   endDate : 0..3, paymentMethod : {"cash"}]
  \cup
  [rental : {"r0", "r1"}, user : {"u1"}, bookingType : {"daily", "weekly"},
   startDate : {1}, endDate : {1}, paymentMethod : {"card", "none"}]

\* Bodies of hourly bookings of rental "r1" by user "u1" for day 1: every
\* pair of times over a few hours of the day, on the half hour, single-digit
\* hours written with and without the leading zero; startDate is sent as the
\* bare date (tod 0) or, for the 10:00 and 12:00 slots, with a time of day
\* (tod 1); plus a body whose time fails the format check and one for a day
\* in the past.
HourlyHours == {0, 1, 10, 11, 12, 13, 23}
HourlyTimes ==
  {t \in [h : HourlyHours, m : {0, 30}, pad : BOOLEAN] : t.pad \/ t.h < 10}
TenOClock == [h |-> 10, m |-> 0, pad |-> TRUE]
HourlyCreateInputs ==
  [rental : {"r1"}, user : {"u1"}, startDate : {1}, tod : {0}, endDate : {1},
   startTime : HourlyTimes, endTime : HourlyTimes, paymentMethod : {"cash"}]
  \cup
  [rental : {"r1"}, user : {"u1"}, startDate : {1}, tod : {1}, endDate : {1},
   startTime : {TenOClock, [TenOClock EXCEPT !.h = 12]},
   endTime : {[TenOClock EXCEPT !.h = 11], [TenOClock EXCEPT !.h = 13]},
   paymentMethod : {"cash"}]
  \cup
  [rental : {"r1"}, user : {"u1"}, startDate : {0, 1}, tod : {0}, endDate : {1},
   startTime : {TenOClock, [TenOClock EXCEPT !.h = 24]},
   endTime : {[TenOClock EXCEPT !.h = 11]}, paymentMethod : {"cash", "none"}]

BookingStatus == {"pending", "confirmed", "cancelled", "completed"}
StatusInputs == BookingStatus \cup {"bogus"}

\* Bodies of POST /adventures/:id/book, all sent by user "u1": a well-formed
\* request for date "d1" or "d0" (which has no bucket) and every party size,
\* and malformed requests for each early return (unknown adventure, bad
\* payment method, card without details).
AdvCreateInputs ==
  [a : {"a1"}, user : {"u1"}, date : {"d1", "d0"}, n : 0..MaxParticipants,
   paymentMethod : {"cash"}, card : {FALSE}]
  \cup
  [a : {"a0", "a1"}, user : {"u1"}, date : {"d1"}, n : {1},
   paymentMethod : {"card", "none"}, card : BOOLEAN]

VARIABLES
  seatAvailability,   \* Adventure.seatAvailability: date -> [totalSeats, availableSeats]
  advBookings,        \* AdventureBooking collection, indexed by id 1..Len
  stock,              \* LocalMarketProduct.stock per product
  boughtBy,           \* LocalMarketProduct.boughtBy per product
  orders,             \* Order collection, indexed by id 1..Len
  availability,       \* Rental.availability: date -> [totalSeats, availableSeats]
  rentalBookings,     \* RentalBooking collection, indexed by id 1..Len
  now,                \* the server clock, what `new Date()` reads
  catalog,            \* flags, price and discount of the adventure, the rental, each product
  reviews,            \* ratings and aggregate rating of the adventure, the rental, each product
  pc,                 \* per request slot: position in its handler
  loc,                \* per request slot: the handler's locals
  hist                \* the last answered request (history variable)

vars ==
  <<seatAvailability, advBookings, stock, boughtBy, orders, availability,
    rentalBookings, now, catalog, reviews, pc, loc, hist>>

advVars == <<seatAvailability, advBookings>>
ordVars == <<stock, boughtBy, orders>>
rentVars == <<availability, rentalBookings>>
envVars == <<now, catalog, reviews>>

\* ------------------------------------------------------------ handler locals
NoLoc ==
  [user |-> "-", id |-> 0, date |-> "-", n |-> 0, status |-> "-", doc |-> <<>>,
   items |-> <<>>, idx |-> 0, stocks |-> <<>>, boughts |-> <<>>, total |-> 0,
   orderItems |-> <<>>]

\* hist.kind names the request and its answer; before is the bucket's
\* availableSeats when the request started changing state, origin the
\* value the createBooking of the booking at hand loaded (-1: not known),
\* req the body of a rejected request.
NoHist ==
  [kind |-> "none", id |-> 0, before |-> -1, origin |-> -1, status |-> "-",
   stocks |-> <<>>, req |-> <<>>]

Event(kind, id, status) ==
  [NoHist EXCEPT !.kind = kind, !.id = id, !.status = status]

\* A handler has answered: the slot is idle again.
Answer(p) ==
  /\ pc' = [pc EXCEPT ![p] = "idle"]
  /\ loc' = [loc EXCEPT ![p] = NoLoc]

Goto(p, label, locals) ==
  /\ pc' = [pc EXCEPT ![p] = label]
  /\ loc' = [loc EXCEPT ![p] = locals]

SeatsOf(sa, d) == IF d \in DOMAIN sa THEN sa[d].availableSeats ELSE -1

\* a cancel check that also lets a confirmed record through
IsNotCompleted(status) == status \in {"pending", "confirmed"}

\* the cancel handlers' `status !== "pending"` early return, negated
IsPending(status) == status = "pending"

\* an ownership test that also lets staff through
IsCreatorOrStaff(record, actor) == record.user = actor.id \/ actor.role # "user"

\* the cancel handlers' `record.user.toString() !== req.user.id` early return, negated
IsCreator(record, actor) == record.user = actor.id

\* ------------------------------------------------- Availability ledger (adventure)
\* createBooking: the bucket must exist and hold enough seats
CheckSeats(sa, d, n) ==
  /\ d \in DOMAIN sa
  /\ ~(sa[d].availableSeats < n)

\* createBooking: seatAvailability[day].availableSeats -= numberOfParticipants
ReserveSeats(sa, d, n) ==
  [sa EXCEPT ![d].availableSeats = @ - n]

\* a faulty release: one seat is given back whatever the party size
ReleaseOneSeat(sa, d, n) ==
  [sa EXCEPT ![d].availableSeats = @ + 1]

\* cancelBooking: seatAvailability[day].availableSeats += numberOfParticipants
ReleaseSeats(sa, d, n) ==
  [sa EXCEPT ![d].availableSeats = @ + n]

\* ------------------------------------------------------------------ pricing
\* Instants are small integers; a discount's validFrom and validUntil are
\* optional Date paths and NoDate is an absent one.  Amounts computed from a
\* percentage are kept in hundredths of the currency unit, so that
\* price * (1 - percentage / 100) stays in the integers.
NoDate == -1
Instants == 0..3
Percentages == {0, 20, 100}
Discounts ==
  [isActive : BOOLEAN, percentage : Percentages, validFrom : {NoDate, 1},
   validUntil : {NoDate, 2}]
NoDiscount ==
  [isActive |-> FALSE, percentage |-> 0, validFrom |-> NoDate, validUntil |-> NoDate]

\* The adventure's isActive flag, price, the price override of its bucket
\* (0: none) and its discount; the rental's isListed flag; each product's
\* price and discount.
CatalogOf(dayPrice, discount) ==
  [adventure |-> [isActive |-> TRUE, price |-> 1000, dayPrice |-> dayPrice,
                  discount |-> discount],
   rental |-> [isListed |-> TRUE, dailyRate |-> 4000],
   product |-> [x \in Products |->
                  IF x = "pA" THEN [price |-> 500, discount |-> discount]
                              ELSE [price |-> 300, discount |-> NoDiscount]]]
PlainCatalog == CatalogOf(0, NoDiscount)
Catalogs == {CatalogOf(dp, d) : dp \in {0, 1200}, d \in Discounts}

\* new Date() >= validFrom, new Date() <= validUntil: false against an absent date
NotBefore(t, d) == d # NoDate /\ t >= d
NotAfter(t, d) == d # NoDate /\ t <= d

\* a discount test that trusts the stored flag alone
DiscountAppliesByFlag(discount, t) == discount.isActive

\* discount.isActive && new Date() >= validFrom && new Date() <= validUntil
DiscountApplies(discount, t) ==
  /\ discount.isActive
  /\ NotBefore(t, discount.validFrom)
  /\ NotAfter(t, discount.validUntil)

\* price, or price * (1 - percentage / 100) under a discount, in hundredths
FinalPrice(price, discount, t) ==
  IF DiscountApplies(discount, t) THEN price * (100 - discount.percentage)
                                  ELSE price * 100

\* AdventureSchema.pre("save"): discount.isActive = new Date() <= validUntil,
\* when the discount has a validUntil
PreSaveAdventure(cat, t) ==
  IF cat.adventure.discount.validUntil # NoDate
    THEN [cat EXCEPT !.adventure.discount.isActive =
                        t <= cat.adventure.discount.validUntil]
    ELSE cat

\* dayAvailability.price || adventure.price
BasePrice(adventure) ==
  IF adventure.dayPrice # 0 THEN adventure.dayPrice ELSE adventure.price

\* ------------------------------------------------------------------ ratings
\* An aggregate rating is the quotient of a sum by a count, kept as the
\* fraction num / den.
Fraction(num, den) == [num |-> num, den |-> den]
NoReviews ==
  [adventure |-> [ratings |-> <<>>, rating |-> Fraction(0, 1), bookedBy |-> 0],
   rental |-> [ratings |-> <<>>, averageRating |-> Fraction(0, 1)],
   product |-> [x \in Products |-> [rating |-> Fraction(0, 1)]]]

InFlightCreates == Cardinality({q \in Procs : pc[q] = "cb_saveBooking"})

\* ---------------------------------------------------- adventure createBooking
\* findById, payment validation, seat check, price, new AdventureBooking(...)
AdvCreateLoad(p, in) ==
  /\ UNCHANGED <<ordVars, rentVars, envVars>>
  /\ pc[p] = "idle"
  /\ Len(advBookings) + InFlightCreates < MaxAdvBookings
  /\ IF \/ in.a # "a1"
        \/ in.paymentMethod \notin {"card", "cash"}
        \/ (in.paymentMethod = "card" /\ ~in.card)
        \/ ~CheckSeats(seatAvailability, in.date, in.n)
       THEN /\ Answer(p)
            /\ hist' = Event("createRejected", 0, "-")
       ELSE /\ Goto(p, "cb_saveBooking",
                    [NoLoc EXCEPT !.user = in.user, !.date = in.date, !.n = in.n,
                                  !.doc = seatAvailability,
                                  !.total = FinalPrice(BasePrice(catalog.adventure),
                                                       catalog.adventure.discount, now)
                                            * in.n])
            /\ hist' = NoHist
  /\ UNCHANGED <<seatAvailability, advBookings>>

\* await booking.save(): schema validation (numberOfParticipants min 1), insert;
\* then the handler decrements its copy of the bucket
AdvCreateSaveBooking(p) ==
  /\ UNCHANGED <<ordVars, rentVars, envVars>>
  /\ pc[p] = "cb_saveBooking"
  /\ IF loc[p].n < 1
       THEN /\ Answer(p)
            /\ hist' = Event("createFailed", 0, "-")
            /\ UNCHANGED advBookings
       ELSE /\ advBookings' = Append(advBookings,
                 [user |-> loc[p].user, date |-> loc[p].date,
                  numberOfParticipants |-> loc[p].n, totalPrice |-> loc[p].total,
                  status |-> "pending"])
            /\ Goto(p, "cb_saveAdventure",
                    [loc[p] EXCEPT !.id = Len(advBookings) + 1,
                                   !.doc = ReserveSeats(loc[p].doc, loc[p].date, loc[p].n)])
            /\ hist' = NoHist
  /\ UNCHANGED seatAvailability

\* await adventure.save(); res.status(201).json(booking)
AdvCreateSaveAdventure(p) ==
  /\ UNCHANGED <<ordVars, rentVars, now, reviews>>
  /\ catalog' = PreSaveAdventure(catalog, now)
  /\ pc[p] = "cb_saveAdventure"
  /\ seatAvailability' = loc[p].doc
  /\ Answer(p)
  /\ hist' = [NoHist EXCEPT !.kind = "created", !.id = loc[p].id,
                            !.origin = SeatsOf(loc[p].doc, loc[p].date) + loc[p].n]
  /\ UNCHANGED advBookings

\* ---------------------------------------------------- adventure cancelBooking
\* findById(booking), ownership check, pending check, booking.status = "cancelled"
AdvCancelLoad(p, actor, id) ==
  /\ UNCHANGED <<ordVars, rentVars, envVars>>
  /\ pc[p] = "idle"
  /\ IF id \notin 1..Len(advBookings)
       THEN Answer(p) /\ hist' = Event("cancelNotFound", 0, "-")
     ELSE IF ~IsCreator(advBookings[id], actor) \/ ~IsPending(advBookings[id].status)
       THEN Answer(p) /\ hist' = Event("cancelRejected", id, "-")
     ELSE /\ Goto(p, "xb_saveBooking",
                  [NoLoc EXCEPT !.user = actor.id, !.id = id,
                                !.date = advBookings[id].date,
                                !.n = advBookings[id].numberOfParticipants])
          /\ hist' = IF hist.kind = "created" /\ hist.id = id THEN hist ELSE NoHist
  /\ UNCHANGED <<seatAvailability, advBookings>>

\* await booking.save()
AdvCancelSaveBooking(p) ==
  /\ UNCHANGED <<ordVars, rentVars, envVars>>
  /\ pc[p] = "xb_saveBooking"
  /\ advBookings' = [advBookings EXCEPT ![loc[p].id].status = "cancelled"]
  /\ Goto(p, "xb_loadAdventure", loc[p])
  /\ hist' = [NoHist EXCEPT !.kind = "cancelling", !.id = loc[p].id,
                            !.before = SeatsOf(seatAvailability, loc[p].date),
                            !.origin = IF hist.kind = "created" /\ hist.id = loc[p].id
                                         THEN hist.origin ELSE -1]
  /\ UNCHANGED seatAvailability

\* await Adventure.findById(booking.adventure); if the bucket exists, += n
AdvCancelLoadAdventure(p) ==
  /\ UNCHANGED <<ordVars, rentVars, envVars>>
  /\ pc[p] = "xb_loadAdventure"
  /\ IF loc[p].date \in DOMAIN seatAvailability
       THEN /\ seatAvailability[loc[p].date].availableSeats + loc[p].n <= SeatCap
            /\ Goto(p, "xb_saveAdventure",
                    [loc[p] EXCEPT !.doc =
                       ReleaseSeats(seatAvailability, loc[p].date, loc[p].n)])
            /\ hist' = IF hist.kind = "cancelling" /\ hist.id = loc[p].id
                         THEN hist ELSE NoHist
       ELSE /\ Answer(p)
            /\ hist' = IF hist.kind = "cancelling" /\ hist.id = loc[p].id
                         THEN [hist EXCEPT !.kind = "userCancelled"] ELSE NoHist
  /\ UNCHANGED <<seatAvailability, advBookings>>

\* await adventure.save(); res.json(...)
AdvCancelSaveAdventure(p) ==
  /\ UNCHANGED <<ordVars, rentVars, now, reviews>>
  /\ catalog' = PreSaveAdventure(catalog, now)
  /\ pc[p] = "xb_saveAdventure"
  /\ seatAvailability' = loc[p].doc
  /\ Answer(p)
  /\ hist' = IF hist.kind = "cancelling" /\ hist.id = loc[p].id
               THEN [hist EXCEPT !.kind = "userCancelled"] ELSE NoHist
  /\ UNCHANGED advBookings

\* ------------------------------------------------------ updateAdventure
\* Bodies of PUT /adventures/:id: a seatAvailability map that replaces the
\* stored one (every date with the same consistent bucket), or a discount
\* with the isActive flag the client chose.
UpdateMaps ==
  UNION {{[d \in Dates |-> [totalSeats |-> t, availableSeats |-> a]] : a \in {0, t}} :
           t \in 1..InitialSeats}
UpdateDiscounts ==
  [isActive : BOOLEAN, percentage : {20}, validFrom : {1}, validUntil : {2}]
UpdateBodies ==
  [hasSeats : {TRUE}, seatAvailability : UpdateMaps, hasDiscount : {FALSE},
   discount : {NoDiscount}]
  \cup
  [hasSeats : {FALSE}, seatAvailability : {<<>>}, hasDiscount : {TRUE},
   discount : UpdateDiscounts]

\* role check, then Adventure.findOneAndUpdate({_id, adventurer: req.user.id},
\* updateFields): one atomic update that sets the paths the body carries;
\* document middleware (the pre-save hook) does not run for it
AdvUpdate(p, actor, body) ==
  /\ UNCHANGED <<ordVars, rentVars, now, reviews>>
  /\ pc[p] = "idle"
  /\ Answer(p)
  /\ IF actor.role # "adventurer" /\ actor.role # "admin"
       THEN /\ hist' = Event("updateRejected", 0, "-")
            /\ UNCHANGED <<seatAvailability, catalog>>
     ELSE IF actor.id # AdventureOwner
       THEN /\ hist' = Event("updateNotFound", 0, "-")
            /\ UNCHANGED <<seatAvailability, catalog>>
     ELSE /\ seatAvailability' =
               IF body.hasSeats THEN body.seatAvailability ELSE seatAvailability
          /\ catalog' =
               IF body.hasDiscount
                 THEN [catalog EXCEPT !.adventure.discount = body.discount]
                 ELSE catalog
          /\ hist' = [NoHist EXCEPT !.kind = "adventureUpdated", !.req = body]
  /\ UNCHANGED advBookings

\* time passes between two requests
Tick ==
  /\ now + 1 \in Instants
  /\ now' = now + 1
  /\ \A p \in Procs : pc[p] = "idle"
  /\ UNCHANGED <<advVars, ordVars, rentVars, catalog, reviews, pc, loc, hist>>

\* ------------------------------------------------ adventure updateBookingStatus
\* role check, findById(booking), findOne({_id, adventurer: req.user.id}),
\* booking.status = status   (this handler has no transition table)
AdvStatusLoad(p, actor, id, status) ==
  /\ UNCHANGED <<ordVars, rentVars, envVars>>
  /\ pc[p] = "idle"
  /\ IF actor.role # "adventurer" /\ actor.role # "admin"
       THEN Answer(p) /\ hist' = Event("statusRejected", 0, "-")
     ELSE IF id \notin 1..Len(advBookings)
       THEN Answer(p) /\ hist' = Event("statusNotFound", 0, "-")
     ELSE IF actor.id # AdventureOwner
       THEN Answer(p) /\ hist' = Event("statusRejected", 0, "-")
     ELSE /\ Goto(p, "ubs_save",
                  [NoLoc EXCEPT !.id = id, !.status = status,
                                !.date = advBookings[id].date,
                                !.n = advBookings[id].numberOfParticipants])
          /\ hist' = NoHist
  /\ UNCHANGED <<seatAvailability, advBookings>>

\* await booking.save(): the schema's enum validator rejects a non-enum status
AdvStatusSave(p) ==
  /\ UNCHANGED <<ordVars, rentVars, envVars>>
  /\ pc[p] = "ubs_save"
  /\ Answer(p)
  /\ IF loc[p].status \notin BookingStatus
       THEN /\ hist' = Event("statusFailed", 0, "-")
            /\ UNCHANGED advBookings
       ELSE /\ advBookings' = [advBookings EXCEPT ![loc[p].id].status = loc[p].status]
            /\ hist' = IF advBookings[loc[p].id].status = "pending"
                            /\ loc[p].status = "cancelled"
                         THEN [NoHist EXCEPT !.kind = "ownerCancelled", !.id = loc[p].id,
                                 !.before = SeatsOf(seatAvailability, loc[p].date)]
                         ELSE Event("statusUpdated", loc[p].id, "-")
  /\ UNCHANGED seatAvailability

\* ------------------------------------------------------------ failing awaits
\* Every handler wraps its body in try/catch: a rejected save()/findById()
\* answers 400/500 and leaves whatever was already persisted.
AdvAwaitPoints ==
  {"cb_saveBooking", "cb_saveAdventure", "xb_saveBooking", "xb_loadAdventure",
   "xb_saveAdventure", "ubs_save"}

AdvAwaitFails(p) ==
  /\ UNCHANGED <<ordVars, rentVars, envVars>>
  /\ pc[p] \in AdvAwaitPoints
  /\ Answer(p)
  /\ hist' = Event("failed", 0, "-")
  /\ UNCHANGED <<seatAvailability, advBookings>>

\* ------------------------------------------------------- POST /orders (create)
\* product.stock < item.quantity rejects the line
CheckStock(st, q) == ~(st < q)

\* product.stock -= item.quantity
TakeStock(st, q) == st - q

\* a faulty restore: one unit is put back whatever the quantity
RestoreOneUnit(st, q) == st + 1

\* product.stock += item.quantity
RestoreStock(st, q) == st + q

InFlightOrders ==
  Cardinality({q \in Procs : pc[q] \in {"oc_loadLine", "oc_saveLine", "oc_saveOrder"}})

\* body validation: items must be a non-empty array, address and payment present
OrdCreateBegin(p, in) ==
  /\ UNCHANGED <<advVars, rentVars, envVars>>
  /\ pc[p] = "idle"
  /\ Len(orders) + InFlightOrders < MaxOrders
  /\ IF in.items = << >> \/ ~in.complete
       THEN /\ Answer(p)
            /\ hist' = Event("orderRejected", 0, "-")
       ELSE /\ Goto(p, "oc_loadLine",
                    [NoLoc EXCEPT !.user = in.user, !.items = in.items, !.idx = 1,
                                  !.stocks = stock, !.boughts = boughtBy])
            /\ hist' = NoHist
  /\ UNCHANGED ordVars

\* for (const item of items): findById(item.productId), existence and stock
\* check, price, product.stock -= quantity, product.boughtBy += quantity
OrdCreateLoadLine(p) ==
  /\ UNCHANGED <<advVars, rentVars, envVars>>
  /\ pc[p] = "oc_loadLine"
  /\ LET item == loc[p].items[loc[p].idx]
     IN item.productId \in Products
          => TakeStock(stock[item.productId], item.quantity) <= StockCap
  /\ LET item == loc[p].items[loc[p].idx]
     IN IF item.productId \notin Products \/ ~CheckStock(stock[item.productId], item.quantity)
          THEN /\ Answer(p)
               /\ hist' = Event("orderRejected", 0, "-")
          ELSE /\ LET product == catalog.product[item.productId]
                       finalPrice == FinalPrice(product.price, product.discount, now)
                   IN Goto(p, "oc_saveLine",
                        [loc[p] EXCEPT
                           !.orderItems = Append(@, [productId |-> item.productId,
                                                     quantity |-> item.quantity,
                                                     price |-> finalPrice]),
                           !.total = @ + finalPrice * item.quantity,
                           !.doc =
                             [stock |-> TakeStock(stock[item.productId], item.quantity),
                              boughtBy |-> boughtBy[item.productId] + item.quantity]])
               /\ hist' = NoHist
  /\ UNCHANGED ordVars

\* await product.save(), then the next line or new Order(...)
OrdCreateSaveLine(p) ==
  /\ UNCHANGED <<advVars, rentVars, envVars>>
  /\ pc[p] = "oc_saveLine"
  /\ LET item == loc[p].items[loc[p].idx]
     IN /\ stock' = [stock EXCEPT ![item.productId] = loc[p].doc.stock]
        /\ boughtBy' = [boughtBy EXCEPT ![item.productId] = loc[p].doc.boughtBy]
  /\ Goto(p, IF loc[p].idx < Len(loc[p].items) THEN "oc_loadLine" ELSE "oc_saveOrder",
          [loc[p] EXCEPT !.idx = @ + 1, !.doc = <<>>])
  /\ hist' = NoHist
  /\ UNCHANGED orders

\* await order.save(): the Order schema requires quantity >= 1 on every line
OrdCreateSaveOrder(p) ==
  /\ UNCHANGED <<advVars, rentVars, envVars>>
  /\ pc[p] = "oc_saveOrder"
  /\ Answer(p)
  /\ IF \E i \in 1..Len(loc[p].items) : loc[p].items[i].quantity < 1
       THEN /\ hist' = Event("orderFailed", 0, "-")
            /\ UNCHANGED orders
       ELSE /\ orders' = Append(orders,
                 [user |-> loc[p].user, items |-> loc[p].orderItems,
                  totalAmount |-> loc[p].total, status |-> "pending"])
            /\ hist' = [NoHist EXCEPT !.kind = "orderCreated", !.id = Len(orders) + 1,
                                      !.stocks = loc[p].stocks]
  /\ UNCHANGED <<stock, boughtBy>>

\* --------------------------------------------------- PATCH /orders/:id/cancel
\* findById(order), ownership check, pending check
OrdCancelLoad(p, actor, id) ==
  /\ UNCHANGED <<advVars, rentVars, envVars>>
  /\ pc[p] = "idle"
  /\ IF id \notin 1..Len(orders)
       THEN Answer(p) /\ hist' = Event("orderCancelNotFound", 0, "-")
     ELSE IF ~IsCreator(orders[id], actor) \/ ~IsPending(orders[id].status)
       THEN Answer(p) /\ hist' = Event("orderCancelRejected", id, "-")
     ELSE /\ Goto(p, "ox_loadLine",
                  [NoLoc EXCEPT !.user = actor.id, !.id = id,
                                !.items = orders[id].items, !.idx = 1,
                                !.stocks = IF hist.kind = "orderCreated" /\ hist.id = id
                                             THEN hist.stocks ELSE <<>>])
          /\ hist' = NoHist
  /\ UNCHANGED ordVars

\* for (const item of order.items): findById(item.product), stock += quantity
OrdCancelLoadLine(p) ==
  /\ UNCHANGED <<advVars, rentVars, envVars>>
  /\ pc[p] = "ox_loadLine"
  /\ LET item == loc[p].items[loc[p].idx]
     IN /\ stock[item.productId] + item.quantity <= StockCap
        /\ Goto(p, "ox_saveLine",
                [loc[p] EXCEPT !.doc =
                   [stock |-> RestoreStock(stock[item.productId], item.quantity)]])
  /\ hist' = NoHist
  /\ UNCHANGED ordVars

\* await product.save(), then the next line or order.status = "cancelled"
OrdCancelSaveLine(p) ==
  /\ UNCHANGED <<advVars, rentVars, envVars>>
  /\ pc[p] = "ox_saveLine"
  /\ stock' = [stock EXCEPT ![loc[p].items[loc[p].idx].productId] = loc[p].doc.stock]
  /\ Goto(p, IF loc[p].idx < Len(loc[p].items) THEN "ox_loadLine" ELSE "ox_saveOrder",
          [loc[p] EXCEPT !.idx = @ + 1, !.doc = <<>>])
  /\ hist' = NoHist
  /\ UNCHANGED <<boughtBy, orders>>

\* await order.save(); res.json(order)
OrdCancelSaveOrder(p) ==
  /\ UNCHANGED <<advVars, rentVars, envVars>>
  /\ pc[p] = "ox_saveOrder"
  /\ orders' = [orders EXCEPT ![loc[p].id].status = "cancelled"]
  /\ Answer(p)
  /\ hist' = [NoHist EXCEPT !.kind = "orderCancelled", !.id = loc[p].id,
                            !.stocks = loc[p].stocks]
  /\ UNCHANGED <<stock, boughtBy>>

\* --------------------------------------------------- PATCH /orders/:id/status
OrderStatus == {"pending", "processing", "shipped", "delivered", "cancelled"}
OrderStatusInputs == OrderStatus \cup {"", "bogus"}
ProductVendor == "vendor"             \* LocalMarketProduct.vendor of every product
OrderActors == Actors \cup {[id |-> "vendor", role |-> "vendor"]}

\* vendorMiddleware (vendor or admin), status present, findById(order), the
\* caller must be the vendor of one of the order's items, order.status = status
\* (this handler has no transition check and restores no stock)
OrdStatusLoad(p, actor, id, status) ==
  /\ UNCHANGED <<advVars, rentVars, envVars>>
  /\ pc[p] = "idle"
  /\ IF actor.role # "vendor" /\ actor.role # "admin"
       THEN Answer(p) /\ hist' = Event("orderStatusForbidden", 0, "-")
     ELSE IF status = ""
       THEN Answer(p) /\ hist' = Event("orderStatusRejected", 0, "-")
     ELSE IF id \notin 1..Len(orders)
       THEN Answer(p) /\ hist' = Event("orderStatusNotFound", 0, "-")
     ELSE IF actor.id # ProductVendor
       THEN Answer(p) /\ hist' = Event("orderStatusForbidden", 0, "-")
     ELSE /\ Goto(p, "os_save", [NoLoc EXCEPT !.id = id, !.status = status])
          /\ hist' = NoHist
  /\ UNCHANGED ordVars

\* await order.save(): the schema's enum validator rejects a non-enum status
OrdStatusSave(p) ==
  /\ UNCHANGED <<advVars, rentVars, envVars>>
  /\ pc[p] = "os_save"
  /\ Answer(p)
  /\ IF loc[p].status \notin OrderStatus
       THEN /\ hist' = Event("orderStatusFailed", 0, "-")
            /\ UNCHANGED orders
       ELSE /\ orders' = [orders EXCEPT ![loc[p].id].status = loc[p].status]
            /\ hist' = Event("orderStatusUpdated", loc[p].id, loc[p].status)
  /\ UNCHANGED <<stock, boughtBy>>

OrdAwaitPoints ==
  {"oc_loadLine", "oc_saveLine", "oc_saveOrder", "ox_loadLine", "ox_saveLine",
   "ox_saveOrder"}

OrdAwaitFails(p) ==
  /\ UNCHANGED <<advVars, rentVars, envVars>>
  /\ pc[p] \in OrdAwaitPoints
  /\ Answer(p)
  /\ hist' = Event("failed", 0, "-")
  /\ UNCHANGED ordVars

\* ------------------------------------------------------ rental createBooking
\* every date of [startDate, endDate] must have a bucket with a free seat
CheckRentalDays(av, from, to) ==
  \A d \in from..to : d \in DOMAIN av /\ ~(av[d].availableSeats < 1)

\* for (const date of bookingDates) rental.availability[date].availableSeats -= 1
ReserveRentalDays(av, from, to) ==
  [d \in DOMAIN av |->
     IF d \in from..to THEN [av[d] EXCEPT !.availableSeats = @ - 1] ELSE av[d]]

InFlightRentals == Cardinality({q \in Procs : pc[q] = "rc_saveBooking"})

\* findById(rental), date and payment validation, booking type, availability
\* of all days, price, new RentalBooking(...)
RentCreateLoad(p, in) ==
  /\ UNCHANGED <<advVars, ordVars, envVars>>
  /\ pc[p] = "idle"
  /\ Len(rentalBookings) + InFlightRentals < MaxRentalBookings
  /\ IF \/ in.rental # "r1"
        \/ in.startDate < 1
        \/ in.endDate < in.startDate
        \/ in.paymentMethod \notin {"cash", "card"}
        \/ in.bookingType # "daily"
        \/ ~CheckRentalDays(availability, in.startDate, in.endDate)
       THEN /\ Answer(p)
            /\ hist' = Event("rentCreateRejected", 0, "-")
       ELSE /\ Goto(p, "rc_saveBooking",
                    [NoLoc EXCEPT !.user = in.user, !.date = in.startDate,
                                  !.n = in.endDate, !.doc = availability])
            /\ hist' = NoHist
  /\ UNCHANGED rentVars

\* a Date value: calendar day and time-of-day part, ordered
DateValue(day, tod) == 2 * day + tod

\* Math.ceil(Math.abs(endDate.getTime() - startDate.getTime()) / one day), on
\* Date values
calculateDays(startValue, endValue) ==
  LET day == DateValue(1, 0) - DateValue(0, 0)
      diffTime == IF endValue - startValue < 0 THEN startValue - endValue
                  ELSE endValue - startValue
  IN (diffTime + day - 1) \div day

\* await booking.save(); then the handler decrements its copy of every day
RentCreateSaveBooking(p) ==
  /\ UNCHANGED <<advVars, ordVars, envVars>>
  /\ pc[p] = "rc_saveBooking"
  /\ rentalBookings' = Append(rentalBookings,
       [user |-> loc[p].user, bookingType |-> "daily", startDate |-> loc[p].date,
        tod |-> 0, endDate |-> loc[p].n, startTime |-> <<>>, endTime |-> <<>>,
        totalDays |-> calculateDays(DateValue(loc[p].date, 0), DateValue(loc[p].n, 0)),
        totalPrice |-> calculateDays(DateValue(loc[p].date, 0), DateValue(loc[p].n, 0))
                         * catalog.rental.dailyRate,
        status |-> "pending"])
  /\ Goto(p, "rc_saveRental",
          [loc[p] EXCEPT !.id = Len(rentalBookings) + 1,
                         !.doc = ReserveRentalDays(loc[p].doc, loc[p].date, loc[p].n)])
  /\ hist' = NoHist
  /\ UNCHANGED availability

\* await rental.save(); res.status(201).json(booking)
RentCreateSaveRental(p) ==
  /\ UNCHANGED <<advVars, ordVars, envVars>>
  /\ pc[p] = "rc_saveRental"
  /\ availability' = loc[p].doc
  /\ Answer(p)
  /\ hist' = Event("rentCreated", loc[p].id, "-")
  /\ UNCHANGED rentalBookings

\* ------------------------------------------- rental createBooking (hourly)
\* A time of day is sent as a string "H:mm" or "HH:mm".  A string is modelled
\* as the sequence of its characters in ASCII order: a digit is its value,
\* ":" (which sorts after every digit) is 10.
Digits(n) == <<n \div 10, n % 10>>

\* the string a client sends for hour h, minute m, zero-padded or not
TimeStr(t) ==
  (IF t.pad \/ t.h >= 10 THEN Digits(t.h) ELSE <<t.h>>) \o <<10>> \o Digits(t.m)

\* /^([01]?[0-9]|2[0-3]):[0-5][0-9]$/
TimeRegex(t) == t.h \in 0..23 /\ t.m \in 0..59

\* time.split(":").map(Number)
ParseHours(str) == IF Len(str) = 4 THEN str[1] ELSE 10 * str[1] + str[2]
ParseMinutes(str) == 10 * str[Len(str) - 1] + str[Len(str)]

\* calculateHours, in minutes: hours + minutes / 60 after the borrow
calculateHours(startTime, endTime) ==
  60 * (ParseHours(endTime) - ParseHours(startTime))
    + (ParseMinutes(endTime) - ParseMinutes(startTime))

RECURSIVE StrLess(_, _)
\* a < b as the database compares two strings (character by character)
StrLess(a, b) ==
  IF b = <<>> THEN FALSE
  ELSE IF a = <<>> THEN TRUE
  ELSE IF Head(a) # Head(b) THEN Head(a) < Head(b)
  ELSE StrLess(Tail(a), Tail(b))

\* d.setHours(hour + by, minute); d.toTimeString().slice(0, 5): the hour wraps
\* into the neighbouring day and the result is always zero-padded
ShiftedTime(str, by) == Digits((ParseHours(str) + by) % 24) \o <<10>> \o Digits(ParseMinutes(str))


\* a selection that ignores the status
AllBookings(bookings) == 1..Len(bookings)

\* status: { $ne: "cancelled" }
NotCancelled(bookings) == {i \in 1..Len(bookings) : bookings[i].status # "cancelled"}

\* hasOverlappingBookings: RentalBooking.find({rental, status != cancelled,
\* $or: [daily overlapping the dates, hourly on the same startDate with
\* startTime < endTime and endTime > startTime]}).length > 0
hasOverlappingBookings(bookings, in) ==
  \E i \in NotCancelled(bookings) :
    \/ /\ bookings[i].bookingType = "daily"
       /\ DateValue(bookings[i].startDate, bookings[i].tod) <= DateValue(in.endDate, in.tod)
       /\ DateValue(bookings[i].endDate, bookings[i].tod) >= DateValue(in.startDate, in.tod)
    \/ /\ bookings[i].bookingType = "hourly"
       /\ bookings[i].startDate = in.startDate /\ bookings[i].tod = in.tod
       /\ StrLess(bookings[i].startTime, TimeStr(in.endTime))
       /\ StrLess(TimeStr(in.startTime), bookings[i].endTime)

\* validateTimeSlot, first buffer query: an hourly booking of that startDate
\* with endTime > (startTime - 1h)
BookingsBefore(bookings, in) ==
  {i \in NotCancelled(bookings) :
     /\ bookings[i].bookingType = "hourly"
     /\ bookings[i].startDate = in.startDate /\ bookings[i].tod = in.tod
     /\ StrLess(ShiftedTime(TimeStr(in.startTime), -1), bookings[i].endTime)}

\* validateTimeSlot, second buffer query: an hourly booking of that startDate
\* with startTime < (endTime + 1h)
BookingsAfter(bookings, in) ==
  {i \in NotCancelled(bookings) :
     /\ bookings[i].bookingType = "hourly"
     /\ bookings[i].startDate = in.startDate /\ bookings[i].tod = in.tod
     /\ StrLess(bookings[i].startTime, ShiftedTime(TimeStr(in.endTime), 1))}

InFlightHourly ==
  Cardinality({q \in Procs : pc[q] \in {"rh_overlap", "rh_before", "rh_after", "rh_save"}})

\* Rental.findById, isListed, date, payment, time format and minimum duration checks
RentHourlyLoad(p, in) ==
  /\ UNCHANGED <<advVars, ordVars, envVars>>
  /\ pc[p] = "idle"
  /\ Len(rentalBookings) + InFlightHourly < MaxRentalBookings
  /\ IF \/ in.rental # "r1"
        \/ ~catalog.rental.isListed
        \/ in.startDate < 1
        \/ in.endDate < in.startDate
        \/ in.paymentMethod \notin {"cash", "card"}
        \/ ~TimeRegex(in.startTime) \/ ~TimeRegex(in.endTime)
       THEN /\ Answer(p)
            /\ hist' = Event("rentCreateRejected", 0, "-")
     ELSE IF calculateHours(TimeStr(in.startTime), TimeStr(in.endTime)) < 60 * MinimumHours
       THEN /\ Answer(p)
            /\ hist' = Event("rentCreateRejected", 0, "-")
     ELSE /\ Goto(p, "rh_overlap", [NoLoc EXCEPT !.user = in.user, !.doc = in])
          /\ hist' = NoHist
  /\ UNCHANGED rentVars

\* validateTimeSlot: await hasOverlappingBookings(...)
RentHourlyOverlap(p) ==
  /\ UNCHANGED <<advVars, ordVars, envVars>>
  /\ pc[p] = "rh_overlap"
  /\ IF hasOverlappingBookings(rentalBookings, loc[p].doc)
       THEN /\ Answer(p)
            /\ hist' = [NoHist EXCEPT !.kind = "slotRejected", !.req = loc[p].doc]
       ELSE /\ Goto(p, "rh_before", loc[p])
            /\ hist' = NoHist
  /\ UNCHANGED rentVars

\* validateTimeSlot: await RentalBooking.find(... endTime > oneHourBefore)
RentHourlyBefore(p) ==
  /\ UNCHANGED <<advVars, ordVars, envVars>>
  /\ pc[p] = "rh_before"
  /\ IF BookingsBefore(rentalBookings, loc[p].doc) # {}
       THEN /\ Answer(p)
            /\ hist' = [NoHist EXCEPT !.kind = "slotRejected", !.req = loc[p].doc]
       ELSE /\ Goto(p, "rh_after", loc[p])
            /\ hist' = NoHist
  /\ UNCHANGED rentVars

\* validateTimeSlot: await RentalBooking.find(... startTime < oneHourAfter)
RentHourlyAfter(p) ==
  /\ UNCHANGED <<advVars, ordVars, envVars>>
  /\ pc[p] = "rh_after"
  /\ IF BookingsAfter(rentalBookings, loc[p].doc) # {}
       THEN /\ Answer(p)
            /\ hist' = [NoHist EXCEPT !.kind = "slotRejected", !.req = loc[p].doc]
       ELSE /\ Goto(p, "rh_save", loc[p])
            /\ hist' = NoHist
  /\ UNCHANGED rentVars

\* await booking.save(); res.status(201).json(booking)
RentHourlySave(p) ==
  /\ UNCHANGED <<advVars, ordVars, envVars>>
  /\ pc[p] = "rh_save"
  /\ rentalBookings' = Append(rentalBookings,
       [user |-> loc[p].user, bookingType |-> "hourly",
        startDate |-> loc[p].doc.startDate, tod |-> loc[p].doc.tod,
        endDate |-> loc[p].doc.endDate, startTime |-> TimeStr(loc[p].doc.startTime),
        endTime |-> TimeStr(loc[p].doc.endTime), status |-> "pending"])
  /\ Answer(p)
  /\ hist' = Event("rentCreated", Len(rentalBookings) + 1, "-")
  /\ UNCHANGED availability

\* ------------------------------------- rental createBooking, daily, by time slot
\* the times validateTimeSlot is given when a daily body carries none
DayStart == [h |-> 0, m |-> 0, pad |-> TRUE]
DayEnd == [h |-> 23, m |-> 59, pad |-> TRUE]

InFlightDaily == Cardinality({q \in Procs : pc[q] \in {"rd_overlap", "rd_save"}})

\* Rental.findById, isListed, date and payment checks, calculateDays
RentDailyLoad(p, in) ==
  /\ UNCHANGED <<advVars, ordVars, envVars>>
  /\ pc[p] = "idle"
  /\ Len(rentalBookings) + InFlightHourly + InFlightDaily < MaxRentalBookings
  /\ IF \/ in.rental # "r1"
        \/ ~catalog.rental.isListed
        \/ in.startDate < 1
        \/ in.endDate < in.startDate
        \/ in.paymentMethod \notin {"cash", "card"}
       THEN /\ Answer(p)
            /\ hist' = Event("rentCreateRejected", 0, "-")
       ELSE /\ Goto(p, "rd_overlap",
                    [NoLoc EXCEPT !.user = in.user,
                                  !.doc = [startDate |-> in.startDate, tod |-> in.tod,
                                           endDate |-> in.endDate,
                                           startTime |-> DayStart, endTime |-> DayEnd]])
            /\ hist' = NoHist
  /\ UNCHANGED rentVars

\* validateTimeSlot(..., "00:00", "23:59", "daily"): hasOverlappingBookings only
RentDailyOverlap(p) ==
  /\ UNCHANGED <<advVars, ordVars, envVars>>
  /\ pc[p] = "rd_overlap"
  /\ IF hasOverlappingBookings(rentalBookings, loc[p].doc)
       THEN /\ Answer(p)
            /\ hist' = [NoHist EXCEPT !.kind = "slotRejected", !.req = loc[p].doc]
       ELSE /\ Goto(p, "rd_save", loc[p])
            /\ hist' = NoHist
  /\ UNCHANGED rentVars

\* new RentalBooking({bookingType: "daily", ...}); await booking.save()
RentDailySave(p) ==
  /\ UNCHANGED <<advVars, ordVars, envVars>>
  /\ pc[p] = "rd_save"
  /\ rentalBookings' = Append(rentalBookings,
       [user |-> loc[p].user, bookingType |-> "daily",
        startDate |-> loc[p].doc.startDate, tod |-> loc[p].doc.tod,
        endDate |-> loc[p].doc.endDate, startTime |-> <<>>, endTime |-> <<>>,
        status |-> "pending"])
  /\ Answer(p)
  /\ hist' = Event("rentCreated", Len(rentalBookings) + 1, "-")
  /\ UNCHANGED availability

\* ------------------------------------------------- rental updateBookingStatus
\* a table that lets a cancelled booking be confirmed again
ValidTransitionsReopen ==
  [pending |-> {"confirmed", "cancelled"}, confirmed |-> {"completed", "cancelled"},
   cancelled |-> {"confirmed"}, completed |-> {}]

\* validTransitions[booking.status].includes(status)
ValidTransitions ==
  [pending |-> {"confirmed", "cancelled"}, confirmed |-> {"completed", "cancelled"},
   cancelled |-> {}, completed |-> {}]

\* findById(booking), findById(rental), renter-or-admin check, completed
\* check, transition table, booking.status = status
RentStatusLoad(p, actor, id, status) ==
  /\ UNCHANGED <<advVars, ordVars, envVars>>
  /\ pc[p] = "idle"
  /\ IF id \notin 1..Len(rentalBookings)
       THEN Answer(p) /\ hist' = Event("rentStatusNotFound", 0, "-")
     ELSE IF RentalOwner # actor.id /\ actor.role # "admin"
       THEN Answer(p) /\ hist' = Event("rentStatusForbidden", 0, "-")
     ELSE IF rentalBookings[id].status = "completed"
       THEN Answer(p) /\ hist' = Event("rentStatusInvalid", id, status)
     ELSE IF status \notin ValidTransitions[rentalBookings[id].status]
       THEN Answer(p) /\ hist' = Event("rentStatusInvalid", id, status)
     ELSE /\ Goto(p, "rs_save", [NoLoc EXCEPT !.id = id, !.status = status])
          /\ hist' = NoHist
  /\ UNCHANGED rentVars

\* await booking.save(); res.json(booking)
RentStatusSave(p) ==
  /\ UNCHANGED <<advVars, ordVars, envVars>>
  /\ pc[p] = "rs_save"
  /\ rentalBookings' = [rentalBookings EXCEPT ![loc[p].id].status = loc[p].status]
  /\ Answer(p)
  /\ hist' = Event("rentStatusUpdated", loc[p].id, loc[p].status)
  /\ UNCHANGED availability

\* ------------------------------------------------------- rental cancelBooking
\* findById(booking), pending check, then ownership check
RentCancelLoad(p, actor, id) ==
  /\ UNCHANGED <<advVars, ordVars, envVars>>
  /\ pc[p] = "idle"
  /\ IF id \notin 1..Len(rentalBookings)
       THEN Answer(p) /\ hist' = Event("rentCancelNotFound", 0, "-")
     ELSE IF ~IsPending(rentalBookings[id].status) \/ ~IsCreator(rentalBookings[id], actor)
       THEN Answer(p) /\ hist' = Event("rentCancelRejected", id, "-")
     ELSE /\ Goto(p, "rx_save", [NoLoc EXCEPT !.user = actor.id, !.id = id])
          /\ hist' = NoHist
  /\ UNCHANGED rentVars

\* booking.status = "cancelled"; await booking.save()   (no bucket is touched)
RentCancelSave(p) ==
  /\ UNCHANGED <<advVars, ordVars, envVars>>
  /\ pc[p] = "rx_save"
  /\ rentalBookings' = [rentalBookings EXCEPT ![loc[p].id].status = "cancelled"]
  /\ Answer(p)
  /\ hist' = Event("rentCancelled", loc[p].id, "-")
  /\ UNCHANGED availability

\* ------------------------------------------------------ rating an item
\* Bodies of the rate routes: the rating sent.
RatingInputs == {-1, 0, 2, 4, 6}

RECURSIVE IndexOfUser(_, _, _)
\* the first index from i on whose rating is by user, 0 when there is none
IndexOfUser(ratings, user, i) ==
  IF i > Len(ratings) THEN 0
  ELSE IF ratings[i].user = user THEN i
  ELSE IndexOfUser(ratings, user, i + 1)

\* a rating that is always added to the list
PushRating(ratings, user, value) ==
  Append(ratings, [user |-> user, value |-> value])

\* rateAdventure: the loop that overwrites the user's entry, else push;
\* rateRental: findIndex, then ratings[index] = {...} or push
UpsertRating(ratings, user, value) ==
  LET i == IndexOfUser(ratings, user, 1)
  IN IF i # 0 THEN [ratings EXCEPT ![i].value = value]
              ELSE Append(ratings, [user |-> user, value |-> value])

RECURSIVE SumOfValues(_)
\* ratings.reduce((sum, r) => sum + r.value, 0)
SumOfValues(ratings) ==
  IF ratings = <<>> THEN 0 ELSE Head(ratings).value + SumOfValues(Tail(ratings))

\* sum / ratings.length
AverageOf(ratings) == Fraction(SumOfValues(ratings), Len(ratings))

\* rateAdventure: rating must be a number in [0, 5]; AdventureBooking.findOne
\* for a confirmed booking of the user
RateAdvFindBooking(p, actor, rating) ==
  /\ UNCHANGED <<advVars, ordVars, rentVars, envVars>>
  /\ pc[p] = "idle"
  /\ IF rating < 0 \/ rating > 5
       THEN Answer(p) /\ hist' = Event("rateRejected", 0, "-")
     ELSE IF ~\E b \in 1..Len(advBookings) :
                /\ advBookings[b].user = actor.id
                /\ advBookings[b].status = "confirmed"
       THEN Answer(p) /\ hist' = Event("rateForbidden", 0, "-")
     ELSE /\ Goto(p, "ra_load", [NoLoc EXCEPT !.user = actor.id, !.n = rating])
          /\ hist' = NoHist

\* Adventure.findById, the user's entry is overwritten or pushed, the average
\* and bookedBy are recomputed on the loaded document
RateAdvLoad(p) ==
  /\ UNCHANGED <<advVars, ordVars, rentVars, envVars>>
  /\ pc[p] = "ra_load"
  /\ LET ratings == UpsertRating(reviews.adventure.ratings, loc[p].user, loc[p].n)
     IN Goto(p, "ra_save",
             [loc[p] EXCEPT !.doc = [ratings |-> ratings, rating |-> AverageOf(ratings),
                                     bookedBy |-> Len(ratings)]])
  /\ hist' = NoHist

\* await adventure.save() (with the pre-save hook); res.json(...)
RateAdvSave(p) ==
  /\ UNCHANGED <<advVars, ordVars, rentVars, now>>
  /\ pc[p] = "ra_save"
  /\ reviews' = [reviews EXCEPT !.adventure = loc[p].doc]
  /\ catalog' = PreSaveAdventure(catalog, now)
  /\ Answer(p)
  /\ hist' = [NoHist EXCEPT !.kind = "rated",
                            !.req = [item |-> "adventure", user |-> loc[p].user,
                                     value |-> loc[p].n]]

\* rateRental: Rental.findById, rating must be a number in [1, 5]
RateRentLoad(p, actor, rating) ==
  /\ UNCHANGED <<advVars, ordVars, rentVars, envVars>>
  /\ pc[p] = "idle"
  /\ IF rating < 1 \/ rating > 5
       THEN Answer(p) /\ hist' = Event("rateRejected", 0, "-")
       ELSE /\ Goto(p, "rr_findBooking",
                    [NoLoc EXCEPT !.user = actor.id, !.n = rating,
                                  !.doc = reviews.rental])
            /\ hist' = NoHist

\* RentalBooking.findOne for a completed booking of the user; the user's
\* entry is replaced or pushed and averageRating recomputed on the document
RateRentFindBooking(p) ==
  /\ UNCHANGED <<advVars, ordVars, rentVars, envVars>>
  /\ pc[p] = "rr_findBooking"
  /\ IF ~\E b \in 1..Len(rentalBookings) :
            /\ rentalBookings[b].user = loc[p].user
            /\ rentalBookings[b].status = "completed"
       THEN Answer(p) /\ hist' = Event("rateForbidden", 0, "-")
       ELSE /\ LET ratings == UpsertRating(loc[p].doc.ratings, loc[p].user, loc[p].n)
               IN Goto(p, "rr_save",
                       [loc[p] EXCEPT !.doc = [ratings |-> ratings,
                                               averageRating |-> AverageOf(ratings)]])
            /\ hist' = NoHist

\* await rental.save(); res.json(...)
RateRentSave(p) ==
  /\ UNCHANGED <<advVars, ordVars, rentVars, now, catalog>>
  /\ pc[p] = "rr_save"
  /\ reviews' = [reviews EXCEPT !.rental = loc[p].doc]
  /\ Answer(p)
  /\ hist' = [NoHist EXCEPT !.kind = "rated",
                            !.req = [item |-> "rental", user |-> loc[p].user,
                                     value |-> loc[p].n]]

\* POST /product/:id/rate: rating must be a non-zero number in [0, 5];
\* LocalMarketProduct.findById
RateProdLoad(p, actor, x, rating) ==
  /\ UNCHANGED <<advVars, ordVars, rentVars, envVars>>
  /\ pc[p] = "idle"
  /\ x \in Products => boughtBy[x] < MaxBoughtBy
  /\ IF rating = 0 \/ rating < 0 \/ rating > 5
       THEN Answer(p) /\ hist' = Event("rateRejected", 0, "-")
     ELSE IF x \notin Products
       THEN Answer(p) /\ hist' = Event("rateNotFound", 0, "-")
     ELSE /\ Goto(p, "rp_findOrder",
                  [NoLoc EXCEPT !.user = actor.id, !.n = rating, !.date = x,
                                !.doc = [rating |-> reviews.product[x].rating,
                                         boughtBy |-> boughtBy[x]]])
          /\ UNCHANGED hist

\* Order.findOne for a delivered order of the user with a line of the product;
\* newRating = (currentRating * totalRatings + rating) / (totalRatings + 1)
\* with totalRatings = product.boughtBy, and boughtBy = totalRatings + 1
RateProdFindOrder(p) ==
  /\ UNCHANGED <<advVars, ordVars, rentVars, envVars>>
  /\ pc[p] = "rp_findOrder"
  /\ IF ~\E o \in 1..Len(orders) :
            /\ orders[o].user = loc[p].user
            /\ orders[o].status = "delivered"
            /\ \E i \in 1..Len(orders[o].items) : orders[o].items[i].productId = loc[p].date
       THEN Answer(p) /\ hist' = Event("rateForbidden", 0, "-")
       ELSE /\ LET currentRating == loc[p].doc.rating
                   totalRatings == loc[p].doc.boughtBy
               IN Goto(p, "rp_save",
                       [loc[p] EXCEPT !.doc =
                          [rating |-> Fraction(currentRating.num * totalRatings
                                                 + loc[p].n * currentRating.den,
                                               currentRating.den * (totalRatings + 1)),
                           boughtBy |-> totalRatings + 1]])
            /\ UNCHANGED hist

\* await product.save(); res.json(...)
RateProdSave(p) ==
  /\ UNCHANGED <<advVars, rentVars, now, catalog>>
  /\ pc[p] = "rp_save"
  /\ reviews' = [reviews EXCEPT !.product[loc[p].date].rating = loc[p].doc.rating]
  /\ boughtBy' = [boughtBy EXCEPT ![loc[p].date] = loc[p].doc.boughtBy]
  /\ Answer(p)
  /\ hist' = [NoHist EXCEPT !.kind = "rated",
                            !.req = [item |-> loc[p].date, user |-> loc[p].user,
                                     value |-> loc[p].n]]
  /\ UNCHANGED <<stock, orders>>

Stores ==
  /\ seatAvailability =
       [d \in Dates |-> [totalSeats |-> InitialSeats, availableSeats |-> InitialSeats]]
  /\ advBookings = <<>>
  /\ stock = [x \in Products |-> InitialStock]
  /\ boughtBy = [x \in Products |-> 0]
  /\ orders = <<>>
  /\ availability =
       [d \in RentalDays |->
          [totalSeats |-> InitialRentalSeats, availableSeats |-> InitialRentalSeats]]
  /\ rentalBookings = <<>>
  /\ pc = [p \in Procs |-> "idle"]
  /\ loc = [p \in Procs |-> NoLoc]
  /\ hist = NoHist

Init ==
  /\ Stores
  /\ now = 1
  /\ catalog = PlainCatalog
  /\ reviews = NoReviews

AdvCreateRequest(p) == \E in \in AdvCreateInputs : AdvCreateLoad(p, in)

AdvCancelRequest(p) ==
  \E actor \in Actors, id \in 0..MaxAdvBookings : AdvCancelLoad(p, actor, id)

AdvStatusRequest(p) ==
  \E actor \in Actors, id \in 0..MaxAdvBookings, status \in StatusInputs :
    AdvStatusLoad(p, actor, id, status)

AdvCreateStep(p) ==
  \/ AdvCreateRequest(p)
  \/ AdvCreateSaveBooking(p)
  \/ AdvCreateSaveAdventure(p)

AdvCancelStep(p) ==
  \/ AdvCancelRequest(p)
  \/ AdvCancelSaveBooking(p)
  \/ AdvCancelLoadAdventure(p)
  \/ AdvCancelSaveAdventure(p)

AdvStatusStep(p) ==
  \/ AdvStatusRequest(p)
  \/ AdvStatusSave(p)

\* Adventure bookings: createBooking and cancelBooking requests interleaving
\* at every await, any await possibly failing.
AdvNext ==
  \E p \in Procs : AdvCreateStep(p) \/ AdvCancelStep(p) \/ AdvAwaitFails(p)

AdvSpec == Init /\ [][AdvNext]_vars

\* Adventure bookings, requests handled one at a time (a single request slot),
\* no await failing.
AdvSeqNext ==
  \/ AdvCreateStep("p1")
  \/ AdvCancelStep("p1")
  \/ AdvStatusStep("p1")

AdvSeqSpec == Init /\ [][AdvSeqNext]_vars
\* Only createBooking requests, interleaving, no await failing.
AdvCreateNext == \E p \in Procs : AdvCreateStep(p)

AdvCreateSpec == Init /\ [][AdvCreateNext]_vars

\* createBooking and cancelBooking requests, one at a time, any await
\* possibly failing.
AdvFailNext == AdvCreateStep("p1") \/ AdvCancelStep("p1") \/ AdvAwaitFails("p1")

AdvFailSpec == Init /\ [][AdvFailNext]_vars

OrdCreateRequest(p) == \E in \in OrderCreateInputs : OrdCreateBegin(p, in)

OrdCancelRequest(p) ==
  \E actor \in Actors, id \in 0..MaxOrders : OrdCancelLoad(p, actor, id)

OrdCreateStep(p) ==
  \/ OrdCreateRequest(p)
  \/ OrdCreateLoadLine(p)
  \/ OrdCreateSaveLine(p)
  \/ OrdCreateSaveOrder(p)

OrdCancelStep(p) ==
  \/ OrdCancelRequest(p)
  \/ OrdCancelLoadLine(p)
  \/ OrdCancelSaveLine(p)
  \/ OrdCancelSaveOrder(p)

\* Orders, requests handled one at a time, no await failing.
OrdSeqNext == OrdCreateStep("p1") \/ OrdCancelStep("p1")

OrdSeqSpec == Init /\ [][OrdSeqNext]_vars

\* Only create-order requests of one line, interleaving, no await failing.
OrdCreateNext ==
  \E p \in Procs :
    \/ \E in \in OneLineOrders : OrdCreateBegin(p, in)
    \/ OrdCreateLoadLine(p)
    \/ OrdCreateSaveLine(p)
    \/ OrdCreateSaveOrder(p)

OrdCreateSpec == Init /\ [][OrdCreateNext]_vars

RentCreateRequest(p) == \E in \in RentalCreateInputs : RentCreateLoad(p, in)

RentStatusRequest(p) ==
  \E actor \in Actors, id \in 0..MaxRentalBookings, status \in StatusInputs :
    RentStatusLoad(p, actor, id, status)

RentCancelRequest(p) ==
  \E actor \in Actors, id \in 0..MaxRentalBookings : RentCancelLoad(p, actor, id)

\* Rental bookings, requests handled one at a time, no await failing.
RentSeqNext ==
  \/ RentCreateRequest("p1")
  \/ RentCreateSaveBooking("p1")
  \/ RentCreateSaveRental("p1")
  \/ RentStatusRequest("p1")
  \/ RentStatusSave("p1")
  \/ RentCancelRequest("p1")
  \/ RentCancelSave("p1")

RentSeqSpec == Init /\ [][RentSeqNext]_vars

RentHourlyRequest(p) == \E in \in HourlyCreateInputs : RentHourlyLoad(p, in)

RentHourlyStep(p) ==
  \/ RentHourlyRequest(p)
  \/ RentHourlyOverlap(p)
  \/ RentHourlyBefore(p)
  \/ RentHourlyAfter(p)
  \/ RentHourlySave(p)

\* Hourly rental bookings, requests handled one at a time, no await failing.
HourlySeqNext == RentHourlyStep("p1")

HourlySeqSpec == Init /\ [][HourlySeqNext]_vars

OrdStatusRequest(p) ==
  \E actor \in OrderActors, id \in 0..MaxOrders, status \in OrderStatusInputs :
    OrdStatusLoad(p, actor, id, status)

OrdStatusStep(p) ==
  \/ OrdStatusRequest(p)
  \/ OrdStatusSave(p)

\* One well-formed body per create route, and the owner of each inventory.
PlainAdvCreate ==
  [a |-> "a1", user |-> "u1", date |-> "d1", n |-> 1, paymentMethod |-> "cash",
   card |-> FALSE]
PlainOrder ==
  [user |-> "u1", items |-> <<[productId |-> "pA", quantity |-> 1]>>, complete |-> TRUE]
PlainRental ==
  [rental |-> "r1", user |-> "u1", bookingType |-> "daily", startDate |-> 1,
   endDate |-> 1, paymentMethod |-> "cash"]
OwnerActor == [id |-> AdventureOwner, role |-> "adventurer"]
RenterActor == [id |-> RentalOwner, role |-> "renter"]
VendorActor == [id |-> ProductVendor, role |-> "vendor"]

\* Create, status-update and cancel requests of the three route families,
\* handled one at a time, no await failing: well-formed creates, status
\* updates by the inventory's owner, cancel requests by every actor.  No
\* handler of one family reads or writes a collection of another, so a
\* behaviour stays within the family of its first stored record.
CancelNext ==
  \/ /\ orders = <<>> /\ rentalBookings = <<>>
     /\ \/ AdvCreateLoad("p1", PlainAdvCreate)
        \/ AdvCreateSaveBooking("p1")
        \/ AdvCreateSaveAdventure("p1")
        \/ \E id \in 1..MaxAdvBookings, status \in BookingStatus :
             AdvStatusLoad("p1", OwnerActor, id, status)
        \/ AdvStatusSave("p1")
        \/ AdvCancelStep("p1")
  \/ /\ advBookings = <<>> /\ rentalBookings = <<>>
     /\ \/ OrdCreateBegin("p1", PlainOrder)
        \/ OrdCreateLoadLine("p1")
        \/ OrdCreateSaveLine("p1")
        \/ OrdCreateSaveOrder("p1")
        \/ \E id \in 1..MaxOrders, status \in OrderStatus :
             OrdStatusLoad("p1", VendorActor, id, status)
        \/ OrdStatusSave("p1")
        \/ OrdCancelStep("p1")
  \/ /\ advBookings = <<>> /\ orders = <<>>
     /\ \/ RentCreateLoad("p1", PlainRental)
        \/ RentCreateSaveBooking("p1")
        \/ RentCreateSaveRental("p1")
        \/ \E id \in 1..MaxRentalBookings, status \in BookingStatus :
             RentStatusLoad("p1", RenterActor, id, status)
        \/ RentStatusSave("p1")
        \/ RentCancelRequest("p1")
        \/ RentCancelSave("p1")

CancelSpec == Init /\ [][CancelNext]_vars

\* Hourly bookings of day 1 with zero-padded times between 10:00 and 12:30,
\* startDate sent as the bare date.
HourlyRaceInputs ==
  [rental : {"r1"}, user : {"u1"}, startDate : {1}, tod : {0}, endDate : {1},
   startTime : {t \in HourlyTimes : t.h \in {10, 11}},
   endTime : {t \in HourlyTimes : t.h \in {11, 12}}, paymentMethod : {"cash"}]

\* Hourly rental createBooking requests interleaving at every await.
HourlyNext ==
  \E p \in Procs :
    \/ \E in \in HourlyRaceInputs : RentHourlyLoad(p, in)
    \/ RentHourlyOverlap(p)
    \/ RentHourlyBefore(p)
    \/ RentHourlyAfter(p)
    \/ RentHourlySave(p)

HourlySpec == Init /\ [][HourlyNext]_vars

\* ================================================================== claims
Quiescent == \A p \in Procs : pc[p] = "idle"

RECURSIVE SeatsHeld(_, _, _)
\* seats of date d held by the first k bookings that are not cancelled
SeatsHeld(bookings, d, k) ==
  IF k = 0 THEN 0
  ELSE SeatsHeld(bookings, d, k - 1)
       + (IF bookings[k].date = d /\ bookings[k].status # "cancelled"
            THEN bookings[k].numberOfParticipants ELSE 0)

\* createBooking of booking b has answered 201 (no handler is still between
\* booking.save() and adventure.save() for it)
AdvAnswered(b) == \A p \in Procs : ~(pc[p] = "cb_saveAdventure" /\ loc[p].id = b)

\* C1: in every reachable state of createBooking / cancelBooking and order
\* create / cancel requests every bucket satisfies
\* 0 <= availableSeats <= totalSeats and every product has stock >= 0.
C1_SeatsWithinTotal ==
  /\ \A d \in DOMAIN seatAvailability :
       /\ 0 <= seatAvailability[d].availableSeats
       /\ seatAvailability[d].availableSeats <= seatAvailability[d].totalSeats
  /\ \A x \in Products : stock[x] >= 0

\* C2: two concurrent createBooking requests on one bucket whose party sizes
\* together exceed the bucket's availableSeats never both succeed.
C2_NoOverbooking ==
  \A b1, b2 \in 1..Len(advBookings) :
    (/\ b1 # b2
     /\ AdvAnswered(b1) /\ AdvAnswered(b2)
     /\ advBookings[b1].date = advBookings[b2].date)
    => advBookings[b1].numberOfParticipants + advBookings[b2].numberOfParticipants
         <= InitialSeats

\* C4: once the createBooking requests have answered (and no booking was
\* cancelled), the seats taken out of each bucket are exactly the seats of
\* the persisted bookings (a booking iff its decrement), also when a
\* persistence step failed.
C4_BookingIffReservation ==
  (Quiescent /\ \A b \in 1..Len(advBookings) : advBookings[b].status = "pending") =>
    \A d \in DOMAIN seatAvailability :
      seatAvailability[d].totalSeats - seatAvailability[d].availableSeats
        = SeatsHeld(advBookings, d, Len(advBookings))

\* C6: when a request has moved a booking from pending to cancelled (the
\* user's cancelBooking or the owner's updateBookingStatus), the bucket holds
\* the booking's seats again.
C6_CancelReleases ==
  (hist.kind \in {"userCancelled", "ownerCancelled"} /\ hist.before >= 0)
    => SeatsOf(seatAvailability, advBookings[hist.id].date)
         = hist.before + advBookings[hist.id].numberOfParticipants

\* C7: createBooking directly followed by cancelBooking of that booking leaves
\* the bucket's availableSeats at its value before the createBooking.
C7_RoundTrip ==
  (hist.kind = "userCancelled" /\ hist.origin >= 0)
    => SeatsOf(seatAvailability, advBookings[hist.id].date) = hist.origin

C7_Witness ==
  /\ hist.kind = "userCancelled"
  /\ hist.origin = InitialSeats
  /\ advBookings[hist.id].numberOfParticipants = 2
  /\ advBookings[hist.id].status = "cancelled"

RECURSIVE LineQuantity(_, _, _)
\* quantity of product x in the first k lines of an order's items
LineQuantity(items, x, k) ==
  IF k = 0 THEN 0
  ELSE LineQuantity(items, x, k - 1)
       + (IF items[k].productId = x THEN items[k].quantity ELSE 0)

RECURSIVE QuantityHeld(_, _, _)
\* quantity of product x held by the first k orders that are not cancelled
QuantityHeld(os, x, k) ==
  IF k = 0 THEN 0
  ELSE QuantityHeld(os, x, k - 1)
       + (IF os[k].status # "cancelled"
            THEN LineQuantity(os[k].items, x, Len(os[k].items)) ELSE 0)

\* C3: concurrent create-order requests never leave successfully created
\* orders holding more of a product than the stock that was available.
C3_NoOverselling ==
  \A x \in Products : QuantityHeld(orders, x, Len(orders)) <= InitialStock

\* C5: a create-order request rejected on one of its lines leaves the stock of
\* every product at its value before the request.
C5_RejectedOrderKeepsStock ==
  [][\A p \in Procs :
       (pc[p] = "oc_loadLine" /\ pc'[p] = "idle" /\ hist'.kind = "orderRejected")
         => stock' = loc[p].stocks]_vars

\* C8: cancelling a pending order directly after its creation puts the stock
\* of every product back to its value before the order was created, and the
\* order is cancelled.
C8_CancelRestoresStock ==
  (hist.kind = "orderCancelled" /\ DOMAIN hist.stocks = Products)
    => /\ stock = hist.stocks
       /\ orders[hist.id].status = "cancelled"

C8_Witness ==
  /\ hist.kind = "orderCancelled"
  /\ DOMAIN hist.stocks = Products
  /\ Len(orders[hist.id].items) = 2
  /\ orders[hist.id].items[1].productId = orders[hist.id].items[2].productId
  /\ orders[hist.id].items[1].quantity = 2
  /\ orders[hist.id].status = "cancelled"
  /\ stock = [x \in Products |-> InitialStock]

\* C10: rental updateBookingStatus changes a status only along
\* pending->confirmed, pending->cancelled, confirmed->completed,
\* confirmed->cancelled; any other request leaves the booking as it was.
C10_RentalTransitionTable ==
  [][\A p \in Procs :
       (pc[p] = "rs_save" \/ (pc[p] = "idle" /\ hist'.kind = "rentStatusInvalid"))
         => \A b \in 1..Len(rentalBookings) :
              \/ rentalBookings'[b] = rentalBookings[b]
              \/ /\ <<rentalBookings[b].status, rentalBookings'[b].status>> \in
                      {<<"pending", "confirmed">>, <<"pending", "cancelled">>,
                       <<"confirmed", "completed">>, <<"confirmed", "cancelled">>}
                 /\ rentalBookings'[b] =
                      [rentalBookings[b] EXCEPT !.status = rentalBookings'[b].status]]_vars

C10_Witness ==
  /\ hist.kind = "rentStatusInvalid"
  /\ hist.status = "confirmed"
  /\ rentalBookings[hist.id].status = "cancelled"

\* C9: once an adventure or rental booking is completed no request changes
\* its status.
C9_CompletedIsTerminal ==
  [][/\ \A b \in 1..Len(advBookings) :
          advBookings[b].status = "completed" => advBookings'[b].status = "completed"
     /\ \A b \in 1..Len(rentalBookings) :
          rentalBookings[b].status = "completed"
            => rentalBookings'[b].status = "completed"]_vars

\* C11: a user's cancel request (adventure cancelBooking, rental
\* cancelBooking, order cancel) is accepted only for a record whose status is
\* pending; a rejected cancel request leaves every booking, order, bucket and
\* stock as it was.
C11_CancelOnlyFromPending ==
  [][\A p \in Procs :
       pc[p] = "idle" =>
         /\ pc'[p] = "xb_saveBooking" => advBookings[loc'[p].id].status = "pending"
         /\ pc'[p] = "rx_save" => rentalBookings[loc'[p].id].status = "pending"
         /\ pc'[p] = "ox_loadLine" => orders[loc'[p].id].status = "pending"
         /\ hist'.kind \in {"cancelRejected", "rentCancelRejected", "orderCancelRejected"}
              => UNCHANGED <<advVars, ordVars, rentVars>>]_vars

C11_Witness ==
  /\ hist.kind = "orderCancelRejected"
  /\ orders[hist.id].user = "u1"
  /\ orders[hist.id].status = "shipped"
  /\ stock["pA"] < InitialStock

\* minutes since midnight of a stored "H:mm" / "HH:mm" string
MinuteOfDay(str) == 60 * ParseHours(str) + ParseMinutes(str)

\* booking b and the window [startTime, endTime] intersect or lie less than one
\* hour apart (times as minutes of the day)
WithinBuffer(b, startTime, endTime) ==
  /\ MinuteOfDay(b.startTime) < MinuteOfDay(endTime) + 60
  /\ MinuteOfDay(b.endTime) > MinuteOfDay(startTime) - 60

\* C12: an hourly booking is never stored while a non-cancelled hourly booking
\* of the rental on the same calendar date intersects its window, ends less
\* than 1 hour before its start or starts less than 1 hour after its end.
C12_BufferEnforced ==
  [][\A p \in Procs :
       pc[p] = "rh_save" /\ Len(rentalBookings') = Len(rentalBookings) + 1 =>
         \A i \in NotCancelled(rentalBookings) :
           (rentalBookings[i].bookingType = "hourly"
              /\ rentalBookings[i].startDate = loc[p].doc.startDate)
             => ~WithinBuffer(rentalBookings[i], TimeStr(loc[p].doc.startTime),
                              TimeStr(loc[p].doc.endTime))]_vars

\* C13: an hourly proposal is refused by the time-slot validation only if
\* some non-cancelled booking of the rental on that day is less than 1 hour
\* clear of it (10:00-11:00 stored: 12:00-13:00 is accepted).
C13_ClearWindowAccepted ==
  hist.kind = "slotRejected" =>
    \E i \in NotCancelled(rentalBookings) :
      /\ rentalBookings[i].startDate <= hist.req.startDate
      /\ rentalBookings[i].endDate >= hist.req.startDate
      /\ rentalBookings[i].bookingType = "hourly"
           => WithinBuffer(rentalBookings[i], TimeStr(hist.req.startTime),
                           TimeStr(hist.req.endTime))

\* C14: no two non-cancelled hourly bookings of the rental on one day have
\* intersecting time windows, whatever the interleaving of the createBooking
\* requests.
C14_NoDoubleBooking ==
  \A i, j \in NotCancelled(rentalBookings) :
    (/\ i # j
     /\ rentalBookings[i].bookingType = "hourly" /\ rentalBookings[j].bookingType = "hourly"
     /\ rentalBookings[i].startDate = rentalBookings[j].startDate)
    => \/ MinuteOfDay(rentalBookings[i].endTime) <= MinuteOfDay(rentalBookings[j].startTime)
       \/ MinuteOfDay(rentalBookings[j].endTime) <= MinuteOfDay(rentalBookings[i].startTime)

\* ------------------------------------------------------------------ C15
\* Pricing: the catalog and the clock are drawn at the start; one request
\* slot then books the adventure for "d1" with every party size, or orders
\* one or two lines with quantities of at least 1, until a booking or an
\* order is stored.
PriceInit ==
  /\ Stores
  /\ now \in Instants
  /\ catalog \in Catalogs
  /\ reviews = NoReviews

PriceAdvInputs == {in \in AdvCreateInputs : in.paymentMethod = "cash" /\ in.n >= 1}
PriceOrderInputs ==
  {in \in OrderCreateInputs :
     /\ in.complete
     /\ in.items # << >>
     /\ \A i \in 1..Len(in.items) : in.items[i].quantity >= 1}

PriceNext ==
  \/ /\ advBookings = <<>> /\ orders = <<>>
     /\ \/ \E in \in PriceAdvInputs : AdvCreateLoad("p1", in)
        \/ \E in \in PriceOrderInputs : OrdCreateBegin("p1", in)
  \/ AdvCreateSaveBooking("p1")
  \/ AdvCreateSaveAdventure("p1")
  \/ OrdCreateLoadLine("p1")
  \/ OrdCreateSaveLine("p1")
  \/ OrdCreateSaveOrder("p1")

PriceSpec == PriceInit /\ [][PriceNext]_vars

\* the price the contract gives one unit of an item, in hundredths
ContractUnitPrice(base, discount) ==
  IF /\ discount.isActive
     /\ discount.validFrom # NoDate /\ discount.validUntil # NoDate
     /\ discount.validFrom <= now /\ now <= discount.validUntil
    THEN base * (100 - discount.percentage)
    ELSE base * 100

RECURSIVE SumOfLines(_)
SumOfLines(items) ==
  IF items = <<>> THEN 0
  ELSE Head(items).price * Head(items).quantity + SumOfLines(Tail(items))

\* C15: a booking is stored with a total of the effective unit price times
\* the number of participants, an order is stored with every line carrying
\* the effective unit price of its product and with a totalAmount that is
\* the sum of price times quantity over its lines; the effective unit price
\* is the base price reduced by the discount percentage exactly when the
\* discount's flag is set and validFrom <= now <= validUntil, and the base
\* price otherwise.
C15_PriceIsUnitTimesQuantity ==
  [][/\ Len(advBookings') > Len(advBookings) =>
          LET b == advBookings'[Len(advBookings')]
          IN b.totalPrice =
               ContractUnitPrice(BasePrice(catalog.adventure), catalog.adventure.discount)
                 * b.numberOfParticipants
     /\ Len(orders') > Len(orders) =>
          LET o == orders'[Len(orders')]
          IN /\ \A i \in 1..Len(o.items) :
                   o.items[i].price =
                     ContractUnitPrice(catalog.product[o.items[i].productId].price,
                                       catalog.product[o.items[i].productId].discount)
             /\ o.totalAmount = SumOfLines(o.items)]_vars

\* An order of two units of "pA" (500, 20% off, inside the window) and one
\* unit of "pB" (300, no discount) totals 2 * 400 + 300.
C15_Witness ==
  /\ catalog.product["pA"].discount.percentage = 20
  /\ DiscountApplies(catalog.product["pA"].discount, now)
  /\ \E o \in 1..Len(orders) :
        /\ Len(orders[o].items) = 2
        /\ orders[o].items[1].quantity = 2
        /\ orders[o].items[2].productId = "pB"
        /\ orders[o].totalAmount = 110000

\* ------------------------------------------------------------------ C16
\* Rating: both users book the adventure (one seat, "d1") or the rental (one
\* day), the owner moves the bookings forward, and both users send ratings,
\* one request at a time.
RateAdvInputs ==
  [a : {"a1"}, user : Users, date : {"d1"}, n : {1}, paymentMethod : {"cash"},
   card : {FALSE}]
RateRentalInputs ==
  {in \in [rental : {"r1"}, user : Users, bookingType : {"daily"},
           startDate : RentalDays, endDate : RentalDays, paymentMethod : {"cash"}] :
     in.startDate = in.endDate}
Raters == {a \in Actors : a.role = "user"}

RateNext ==
  \/ /\ rentalBookings = <<>>
     /\ \/ \E in \in RateAdvInputs : AdvCreateLoad("p1", in)
        \/ AdvCreateSaveBooking("p1")
        \/ AdvCreateSaveAdventure("p1")
        \/ \E id \in 1..MaxAdvBookings : AdvStatusLoad("p1", OwnerActor, id, "confirmed")
        \/ AdvStatusSave("p1")
        \/ \E actor \in Raters, rating \in RatingInputs :
             RateAdvFindBooking("p1", actor, rating)
        \/ RateAdvLoad("p1")
        \/ RateAdvSave("p1")
  \/ /\ advBookings = <<>>
     /\ \/ \E in \in RateRentalInputs : RentCreateLoad("p1", in)
        \/ RentCreateSaveBooking("p1")
        \/ RentCreateSaveRental("p1")
        \/ \E id \in 1..MaxRentalBookings, status \in {"confirmed", "completed"} :
             RentStatusLoad("p1", RenterActor, id, status)
        \/ RentStatusSave("p1")
        \/ \E actor \in Raters, rating \in RatingInputs :
             RateRentLoad("p1", actor, rating)
        \/ RateRentFindBooking("p1")
        \/ RateRentSave("p1")

RateSpec == Init /\ [][RateNext]_vars

\* the fraction is the arithmetic mean of the values of a non-empty list
IsMeanOf(fraction, ratings) ==
  /\ fraction.den # 0
  /\ fraction.num * Len(ratings) = SumOfValues(ratings) * fraction.den

OnePerUser(ratings) ==
  \A i, j \in 1..Len(ratings) : ratings[i].user = ratings[j].user => i = j

\* C16: the adventure and the rental each hold at most one rating per user,
\* the user of the last accepted rating is stored with the value just sent,
\* and the item's aggregate rating is the arithmetic mean of the stored
\* ratings.
C16_OneRatingPerUser ==
  /\ OnePerUser(reviews.adventure.ratings)
  /\ OnePerUser(reviews.rental.ratings)
  /\ reviews.adventure.ratings # <<>> =>
       IsMeanOf(reviews.adventure.rating, reviews.adventure.ratings)
  /\ reviews.rental.ratings # <<>> =>
       IsMeanOf(reviews.rental.averageRating, reviews.rental.ratings)
  /\ hist.kind = "rated" =>
       \E i \in 1..Len(reviews[hist.req.item].ratings) :
         /\ reviews[hist.req.item].ratings[i].user = hist.req.user
         /\ reviews[hist.req.item].ratings[i].value = hist.req.value

\* "u1" rated the adventure before "u2" did, and has just rated it again
\* with 2: the list holds 2 for "u1" and 4 for "u2", the aggregate is 3.
C16_Witness ==
  /\ hist.kind = "rated"
  /\ hist.req = [item |-> "adventure", user |-> "u1", value |-> 2]
  /\ reviews.adventure.ratings =
       <<[user |-> "u1", value |-> 2], [user |-> "u2", value |-> 4]>>
  /\ reviews.adventure.rating = Fraction(6, 2)

\* ------------------------------------------------------------------ C17
\* Product rating: "u1" orders one unit of "pA", the vendor moves the order
\* through its statuses, and both users send ratings for the products, one
\* request at a time.
ProdRateNext ==
  \/ OrdCreateBegin("p1", PlainOrder)
  \/ OrdCreateLoadLine("p1")
  \/ OrdCreateSaveLine("p1")
  \/ OrdCreateSaveOrder("p1")
  \/ \E id \in 1..MaxOrders, status \in OrderStatus :
       OrdStatusLoad("p1", VendorActor, id, status)
  \/ OrdStatusSave("p1")
  \/ \E actor \in Raters, x \in {"pA", "pX"}, rating \in RatingInputs :
       RateProdLoad("p1", actor, x, rating)
  \/ RateProdFindOrder("p1")
  \/ RateProdSave("p1")

ProdRateSpec == Init /\ [][ProdRateNext]_vars

\* C17: when a user whose rating of a product was the last request answered
\* rates the same product again (no one else having rated it), the
\* product's aggregate rating becomes the value just sent and the count of
\* ratings stays as it was.
C17_ProductRatingReplaced ==
  [][(/\ \E p \in Procs : pc[p] = "rp_save" /\ pc'[p] = "idle"
      /\ hist.kind = "rated"
      /\ hist'.kind = "rated"
      /\ hist'.req.item = hist.req.item
      /\ hist'.req.user = hist.req.user
      /\ hist.req.item \in Products)
       => /\ boughtBy'[hist.req.item] = boughtBy[hist.req.item]
          /\ reviews'.product[hist.req.item].rating.num =
               hist'.req.value * reviews'.product[hist.req.item].rating.den]_vars

\* ------------------------------------------------------------------ C18
\* the position of a status in pending -> processing -> shipped -> delivered
\* -> cancelled
StatusOrder == <<"pending", "processing", "shipped", "delivered", "cancelled">>
StatusRank(status) == CHOOSE i \in 1..Len(StatusOrder) : StatusOrder[i] = status

\* C18: no step moves an order to an earlier status, and no step makes an
\* order cancelled that has left pending.
C18_OrderStatusForward ==
  [][\A o \in 1..Len(orders) :
       /\ StatusRank(orders'[o].status) >= StatusRank(orders[o].status)
       /\ (orders[o].status \notin {"pending", "cancelled"}
             => orders'[o].status # "cancelled")]_vars

\* ------------------------------------------------------------------ C19
\* Listing: the adventure's isActive and the rental's isListed are drawn at
\* the start; one request slot then books the adventure or an hourly slot
\* of the rental.
ListingInit ==
  /\ Stores
  /\ now = 1
  /\ catalog \in {[PlainCatalog EXCEPT !.adventure.isActive = a, !.rental.isListed = l] :
                    a \in BOOLEAN, l \in BOOLEAN}
  /\ reviews = NoReviews

ListingNext ==
  \/ /\ rentalBookings = <<>>
     /\ \/ \E in \in AdvCreateInputs : AdvCreateLoad("p1", in)
        \/ AdvCreateSaveBooking("p1")
        \/ AdvCreateSaveAdventure("p1")
  \/ /\ advBookings = <<>>
     /\ \/ \E in \in HourlyRaceInputs : RentHourlyLoad("p1", in)
        \/ RentHourlyOverlap("p1")
        \/ RentHourlyBefore("p1")
        \/ RentHourlyAfter("p1")
        \/ RentHourlySave("p1")

ListingSpec == ListingInit /\ [][ListingNext]_vars

\* C19: while the adventure is not active no step creates an adventure
\* booking or changes a bucket, and while the rental is not listed no step
\* creates a rental booking or changes its availability.
C19_UnlistedNotBookable ==
  [][/\ ~catalog.adventure.isActive => UNCHANGED advVars
     /\ ~catalog.rental.isListed => UNCHANGED rentVars]_vars

\* ------------------------------------------------------------------ C20
\* Orders that fail: bodies of one or two lines for "pA" whose last line
\* carries any quantity from -1 on (the first line of two is well-formed),
\* handled one at a time, and any await may reject.
FailLines == [productId : {"pA"}, quantity : -1..MaxQuantity]
OrderFailInputs ==
  [user : {"u1"},
   items : {<<l>> : l \in FailLines} \cup {<<l1, l2>> : l1 \in FirstLines, l2 \in FailLines},
   complete : {TRUE}]

OrdFailNext ==
  \/ \E in \in OrderFailInputs : OrdCreateBegin("p1", in)
  \/ OrdCreateLoadLine("p1")
  \/ OrdCreateSaveLine("p1")
  \/ OrdCreateSaveOrder("p1")
  \/ OrdAwaitFails("p1")

OrdFailSpec == Init /\ [][OrdFailNext]_vars

\* C20: a create-order request that has examined all its lines and is then
\* answered without an order being created leaves the stock and boughtBy of
\* every product at their values before the request.
C20_FailedOrderKeepsStock ==
  [][\A p \in Procs :
       (pc[p] = "oc_saveOrder" /\ pc'[p] = "idle" /\ hist'.kind # "orderCreated")
         => /\ stock' = loc[p].stocks
            /\ boughtBy' = loc[p].boughts]_vars

\* ------------------------------------------------------------------ C21
\* The owner replaces the seatAvailability map between the requests of a
\* user who books "d1" and cancels; one request at a time, no await failing.
SeatUpdates == {body \in UpdateBodies : body.hasSeats}

UpdateNext ==
  \/ \E in \in PriceAdvInputs : AdvCreateLoad("p1", in)
  \/ AdvCreateSaveBooking("p1")
  \/ AdvCreateSaveAdventure("p1")
  \/ \E actor \in Actors, body \in SeatUpdates : AdvUpdate("p1", actor, body)
  \/ AdvCancelStep("p1")

UpdateSpec == Init /\ [][UpdateNext]_vars

\* C21: the step of cancelBooking that stores the released seats leaves no
\* bucket with availableSeats above its totalSeats.
C21_ReleaseCapped ==
  [][(\E p \in Procs : pc[p] = "xb_saveAdventure" /\ pc'[p] = "idle")
       => \A d \in DOMAIN seatAvailability' :
            seatAvailability'[d].availableSeats <= seatAvailability'[d].totalSeats]_vars

\* ------------------------------------------------------------------ C22
\* Daily and hourly bookings of the rental through the time-slot checks,
\* and cancellations, one request at a time: daily ranges over the rental's
\* days, hourly slots 10:00-11:00 .. 12:00-13:00 on either day, dates sent
\* bare or with a time of day.
SlotDailyInputs ==
  {in \in [rental : {"r1"}, user : {"u1"}, startDate : 0..2, endDate : RentalDays,
           tod : {0, 1}, paymentMethod : {"cash"}] : in.startDate <= in.endDate}
SlotHourlyInputs ==
  {in \in [rental : {"r1"}, user : {"u1"}, startDate : RentalDays, tod : {0, 1},
           endDate : RentalDays,
           startTime : {TenOClock, [TenOClock EXCEPT !.h = 12]},
           endTime : {[TenOClock EXCEPT !.h = 11], [TenOClock EXCEPT !.h = 13]},
           paymentMethod : {"cash"}] : in.startDate = in.endDate}

SlotNext ==
  \/ \E in \in SlotDailyInputs : RentDailyLoad("p1", in)
  \/ RentDailyOverlap("p1")
  \/ RentDailySave("p1")
  \/ \E in \in SlotHourlyInputs : RentHourlyLoad("p1", in)
  \/ RentHourlyOverlap("p1")
  \/ RentHourlyBefore("p1")
  \/ RentHourlyAfter("p1")
  \/ RentHourlySave("p1")
  \/ RentCancelRequest("p1")
  \/ RentCancelSave("p1")

SlotSpec == Init /\ [][SlotNext]_vars

\* a non-cancelled daily booking whose [startDate, endDate] holds the date
CoveredByDaily(bookings, day, tod) ==
  \E i \in 1..Len(bookings) :
    /\ bookings[i].status # "cancelled"
    /\ bookings[i].bookingType = "daily"
    /\ DateValue(bookings[i].startDate, bookings[i].tod) <= DateValue(day, tod)
    /\ DateValue(day, tod) <= DateValue(bookings[i].endDate, bookings[i].tod)

DiscountUpdates == {body \in UpdateBodies : body.hasDiscount}

DiscountNext ==
  \/ Tick
  \/ \E actor \in Actors, body \in DiscountUpdates : AdvUpdate("p1", actor, body)
  \/ AdvCreateLoad("p1", PlainAdvCreate)
  \/ AdvCreateSaveBooking("p1")
  \/ AdvCreateSaveAdventure("p1")
  \/ \E id \in 1..MaxAdvBookings : AdvStatusLoad("p1", OwnerActor, id, "confirmed")
  \/ AdvStatusSave("p1")
  \/ AdvCancelStep("p1")
  \/ \E actor \in Raters, rating \in RatingInputs : RateAdvFindBooking("p1", actor, rating)
  \/ RateAdvLoad("p1")
  \/ RateAdvSave("p1")

DiscountSpec == Init /\ [][DiscountNext]_vars

\* a step that writes the adventure document
PersistsAdventure ==
  \/ hist'.kind = "adventureUpdated" /\ hist' # hist
  \/ \E p \in Procs :
       pc[p] \in {"cb_saveAdventure", "xb_saveAdventure", "ra_save"} /\ pc'[p] = "idle"

\* C23: after every step that writes the adventure, the stored
\* discount.isActive of a discount with a validUntil equals
\* (now <= validUntil).
C23_FlagRecomputed ==
  [][(PersistsAdventure /\ catalog'.adventure.discount.validUntil # NoDate)
       => (catalog'.adventure.discount.isActive
             <=> now <= catalog'.adventure.discount.validUntil)]_vars

\* ------------------------------------------------------------------ C24
\* C24: a cancel request goes on to write only when the caller is the
\* record's creator, and a refused cancel request leaves every booking,
\* order, bucket and stock as it was, whatever the record's status and the
\* caller's role.
C24_OnlyCreatorCancels ==
  [][\A p \in Procs :
       pc[p] = "idle" =>
         /\ pc'[p] = "xb_saveBooking" => advBookings[loc'[p].id].user = loc'[p].user
         /\ pc'[p] = "rx_save" => rentalBookings[loc'[p].id].user = loc'[p].user
         /\ pc'[p] = "ox_loadLine" => orders[loc'[p].id].user = loc'[p].user
         /\ (pc'[p] = "idle"
               /\ hist'.kind \in {"cancelRejected", "rentCancelRejected",
                                  "orderCancelRejected"})
              => /\ advBookings' = advBookings /\ seatAvailability' = seatAvailability
                 /\ orders' = orders /\ stock' = stock
                 /\ rentalBookings' = rentalBookings /\ availability' = availability]_vars

\* a cancel request on a pending adventure booking was refused: the caller
\* was not its creator
C24_Witness ==
  /\ hist.kind = "cancelRejected"
  /\ advBookings[hist.id].status = "pending"
  /\ SeatsOf(seatAvailability, advBookings[hist.id].date) < InitialSeats

\* ------------------------------------------------------------------ C25
\* C25: between requests, the stock of every product plus the quantities of
\* it in the orders that are not cancelled equals the initial stock.
C25_StockConserved ==
  Quiescent =>
    \A x \in Products : stock[x] + QuantityHeld(orders, x, Len(orders)) = InitialStock

\* ------------------------------------------------------------------ C26
\* One booking of the adventure is created and its reservation stored; cancel
\* requests then run concurrently in both slots, interleaved with the owner's
\* status updates.
Reserving == \E p \in Procs : pc[p] \in {"cb_saveBooking", "cb_saveAdventure"}

ReleaseNext ==
  \/ /\ advBookings = <<>> /\ Quiescent
     /\ AdvCreateLoad("p1", PlainAdvCreate)
  \/ AdvCreateSaveBooking("p1")
  \/ AdvCreateSaveAdventure("p1")
  \/ /\ ~Reserving
     /\ \/ \E p \in Procs : AdvCancelStep(p)
        \/ \E p \in Procs, status \in BookingStatus :
             AdvStatusLoad(p, OwnerActor, 1, status)
        \/ \E p \in Procs : AdvStatusSave(p)

ReleaseSpec == Init /\ [][ReleaseNext]_vars

\* With a single booking b whose reservation is stored, the bucket holds
\* InitialSeats - n + n * (number of releases of b): the number of times the
\* seats of b were added back.
TimesReleased(b) ==
  (SeatsOf(seatAvailability, b.date) - (InitialSeats - b.numberOfParticipants))
    \div b.numberOfParticipants

\* C26: the seats of an adventure booking are added back to the bucket at
\* most once, whether cancel requests overlap or follow a status update back
\* to pending.
C26_ReleasedAtMostOnce ==
  (Len(advBookings) = 1 /\ ~Reserving) => TimesReleased(advBookings[1]) <= 1

\* ------------------------------------------------------------------ C27
\* One booking is created and its reservation stored; the user's cancel
\* requests and the owner's updateBookingStatus(confirmed), each started
\* while the stored booking is pending, then run in both slots.
ConfirmNext ==
  \/ /\ advBookings = <<>> /\ Quiescent
     /\ \E n \in 1..MaxParticipants :
          AdvCreateLoad("p1", [PlainAdvCreate EXCEPT !.n = n])
  \/ AdvCreateSaveBooking("p1")
  \/ AdvCreateSaveAdventure("p1")
  \/ /\ ~Reserving
     /\ \/ \E p \in Procs : AdvCancelStep(p)
        \/ /\ Len(advBookings) = 1 /\ advBookings[1].status = "pending"
           /\ \E p \in Procs : AdvStatusLoad(p, OwnerActor, 1, "confirmed")
        \/ \E p \in Procs : AdvStatusSave(p)

ConfirmSpec == Init /\ [][ConfirmNext]_vars

\* C27: once the requests have been answered, a confirmed booking still has
\* its seats reserved.
C27_ConfirmedKeepsSeats ==
  (Len(advBookings) = 1 /\ Quiescent /\ advBookings[1].status = "confirmed")
    => TimesReleased(advBookings[1]) = 0

\* ------------------------------------------------------------------ C28
\* Each request slot works on one date bucket of the adventure: slot p1 takes
\* u1's createBooking and cancelBooking requests for d1, slot p2 takes u2's for
\* d2.  Requests on the same bucket never overlap; requests on different
\* buckets do.
BucketOf(p) == IF p = "p1" THEN "d1" ELSE "d2"
CallerOf(p) == IF p = "p1" THEN [id |-> "u1", role |-> "user"]
                           ELSE [id |-> "u2", role |-> "user"]

BucketNext ==
  \E p \in Procs :
    \/ \E n \in 1..MaxParticipants :
         AdvCreateLoad(p, [PlainAdvCreate EXCEPT !.user = CallerOf(p).id,
                                                 !.date = BucketOf(p), !.n = n])
    \/ AdvCreateSaveBooking(p)
    \/ AdvCreateSaveAdventure(p)
    \/ \E id \in 1..MaxAdvBookings :
         /\ id <= Len(advBookings)
         /\ advBookings[id].date = BucketOf(p)
         /\ AdvCancelLoad(p, CallerOf(p), id)
    \/ AdvCancelSaveBooking(p)
    \/ AdvCancelLoadAdventure(p)
    \/ AdvCancelSaveAdventure(p)

BucketSpec == Init /\ [][BucketNext]_vars

\* C28: once the requests have been answered, every bucket shows the seats of
\* all its bookings that are not cancelled: no reservation and no release
\* written by one request was dropped by a request on another bucket.
C28_BothChangesKept ==
  Quiescent =>
    \A d \in Dates :
      SeatsOf(seatAvailability, d) = InitialSeats - SeatsHeld(advBookings, d, Len(advBookings))

\* ------------------------------------------------------------------ C29
\* number of buckets from which the handler takes a seat
BucketsTaken(before, after) ==
  Cardinality({d \in DOMAIN before : after[d].availableSeats < before[d].availableSeats})

\* C29: the totalDays stored with an accepted daily rental booking is the
\* number of date buckets the request reserves, and its totalPrice is
\* totalDays times the daily rate.
C29_DaysMatchBuckets ==
  [][\A p \in Procs :
       (pc[p] = "rc_saveBooking" /\ pc'[p] = "rc_saveRental")
         => LET booking == rentalBookings'[Len(rentalBookings')]
            IN /\ booking.totalDays = BucketsTaken(loc[p].doc, loc'[p].doc)
               /\ booking.totalPrice = booking.totalDays * catalog.rental.dailyRate]_vars

\* ------------------------------------------------------------------ C30
\* a stored hourly booking that is not cancelled lies on a calendar day of
\* the range from..to
HourlyWithin(bookings, from, to) ==
  \E i \in 1..Len(bookings) :
    /\ bookings[i].status # "cancelled"
    /\ bookings[i].bookingType = "hourly"
    /\ from <= bookings[i].startDate /\ bookings[i].startDate <= to

\* C30: a daily proposal passes the overlap check only when no calendar day
\* of its range holds an hourly booking that is not cancelled.
C30_DailyAvoidsHourly ==
  [][\A p \in Procs :
       (pc[p] = "rd_overlap" /\ pc'[p] = "rd_save")
         => ~HourlyWithin(rentalBookings, loc[p].doc.startDate, loc[p].doc.endDate)]_vars
====
